---- MODULE Spec2Model ----
(***************************************************************************)
(* State-machine model of the audio recording / separation / export app.   *)
(*                                                                         *)
(*   utils/audioProcessing  processingAudio, mergeAudioTracks              *)
(*   utils/fileSystem       createTempDirectory                            *)
(*                                                                         *)
(* Every await of a handler is one step of the model; the platform calls   *)
(* (expo-file-system, expo-av) settle nondeterministically with success or *)
(* failure.                                                                *)
(***************************************************************************)
EXTENDS Integers, Sequences, FiniteSets, Bags, TLC

\* ------------------------------------------------------------------ bounds
\* Date.now() advances in steps of TickMs up to MaxTicks steps.
MaxTicks == 6
TickMs == 1000

\* ------------------------------------------------------- program constants
\* setTimeout(resolve, 3000) of the simulated separation
ProcessSleepMs == 3000
\* setTimeout(resolve, 2000) of the simulated merge
MergeSleepMs == 2000

Undefined == "<undefined>"
CacheDirectory == "file:///cache/"

\* Platform.OS
Platforms == {"web", "ios"}

VARIABLES
  platformOS,   \* Platform.OS
  now,          \* Date.now()
  files,        \* what a URI resolves to: URI -> content
  dirs,         \* the directories of the file system
  call          \* the processingAudio / mergeAudioTracks call in flight: its
                \* position, arguments, locals and promise

utilVars == <<platformOS, now, files, dirs, call>>
noFileVars == <<platformOS, now, dirs, call>>

VARIABLES
  mounted,          \* the Record screen is mounted
  permission,       \* getPermissions(): 'pending' until requestPermissionsAsync settles
  recording,        \* useState: the Audio.Recording handle (NoId: null)
  recordingStatus,  \* useState: 'idle' | 'recording' | 'paused'
  audioUri,         \* useState: string | null
  sound,            \* useState: the Audio.Sound handle (NoId: null)
  isPlaying,        \* useState
  duration,         \* useState
  position,         \* useState
  positionRef,      \* useRef: positionRef.current, in timer ticks
  durationTimer,    \* useRef: durationTimer.current, an interval id (NoId: null)
  timers,           \* the interval timers that are running
  nextTimer,        \* the id the next setInterval returns
  nextRecorder,     \* the id of the next Audio.Recording
  sounds,           \* the Audio.Sound objects: loaded, playing, pos, callback closure
  tasks,            \* the handlers awaiting a platform promise, with their closures
  console,          \* console.error written by the last step
  alert,            \* Alert.alert shown by the last step
  unhandled         \* the promise rejected in the last step that nothing handles

VARIABLES
  editor,           \* the Editor screen: its route parameter and useState values
  export            \* the Export screen: its route parameters and useState values

\* The Record screen's own state, and the handlers and outputs of whichever
\* screen is running.
recordScreen == <<mounted, permission, recording, recordingStatus, audioUri, sound, isPlaying,
                  duration, position, positionRef, durationTimer, timers, nextTimer,
                  nextRecorder, sounds>>
recVars == <<mounted, permission, recording, recordingStatus, audioUri, sound, isPlaying,
             duration, position, positionRef, durationTimer, timers, nextTimer,
             nextRecorder, sounds, tasks, console, alert, unhandled>>

\* What the steps of one part of the app leave alone.
outsideUtil == <<recVars, editor, export>>
outsideRecord == <<utilVars, editor, export>>
outsideRecordNoFiles == <<noFileVars, editor, export>>

\* ============================================================ JS numbers
\* A volume is a double between 0 and 2. Such a double is identified by its
\* shortest decimal expansion, which has at most 17 fractional digits: the
\* hundredths and the tail, in units of 10^-17, that follows them
\* (0.5700000000000001 is 57 hundredths with tail 10).
FractionDigits == 17
TailDigits == FractionDigits - 2
Num(hundredths, tail) == [hundredths |-> hundredths, tail |-> tail]

\* useState(1) of the Editor, and the default of the Export screen.
One == Num(100, 0)

RECURSIVE Pow10(_)
Pow10(k) == IF k = 0 THEN 1 ELSE 10 * Pow10(k - 1)

\* The characters of a decimal literal.
DigitChar(d) == ToString(d)
CharDigit(c) == CHOOSE d \in 0..9 : DigitChar(d) = c
IsDigitChar(c) == \E d \in 0..9 : DigitChar(d) = c

\* Slider (part_003): minimumValue={0} maximumValue={2} step={0.01}, in steps.
SliderMinimum == 0
SliderMaximum == 200
SliderSteps == SliderMinimum..SliderMaximum

\* n * 0.01 in IEEE-754 double arithmetic is not always the double nearest to
\* n/100: for these n the product lies above it, and its shortest decimal
\* expansion carries a 17th or a 16th fractional digit.
ProductTail(n) ==
  IF n \in {35, 41, 47} THEN 3
  ELSE IF n \in {57, 69, 70, 82, 83, 94, 95, 113, 114, 115, 138, 139, 140,
                 163, 164, 165, 166, 188, 189, 190, 191} THEN 10
  ELSE 0

\* calculateValue: Math.round(rawValue / step) * step, clamped to the range;
\* n is Math.round(rawValue / step).
calculateValue(n) ==
  LET steppedValue == Num(n, ProductTail(n)) IN
  IF n < SliderMinimum THEN Num(SliderMinimum, 0)
  ELSE IF n >= SliderMaximum THEN Num(SliderMaximum, 0)
  ELSE steppedValue

\* Number.prototype.toString: the integer part, then the fractional digits
\* without their trailing zeros, and no point when none is left.
RECURSIVE IntegerChars(_)
IntegerChars(i) ==
  IF i < 10 THEN <<DigitChar(i)>> ELSE IntegerChars(i \div 10) \o <<DigitChar(i % 10)>>

TailDigit(tail, i) ==
  LET e == TailDigits - i IN IF e > 8 THEN 0 ELSE (tail \div Pow10(e)) % 10

FractionChars(x) ==
  <<DigitChar((x.hundredths % 100) \div 10), DigitChar(x.hundredths % 10)>>
    \o [i \in 1..TailDigits |-> DigitChar(TailDigit(x.tail, i))]

RECURSIVE TrimZeros(_)
TrimZeros(cs) ==
  IF cs # <<>> /\ cs[Len(cs)] = "0" THEN TrimZeros(SubSeq(cs, 1, Len(cs) - 1)) ELSE cs

NumberToString(x) ==
  LET fraction == TrimZeros(FractionChars(x)) IN
  IntegerChars(x.hundredths \div 100) \o (IF fraction = <<>> THEN <<>> ELSE <<".">> \o fraction)

\* parseFloat: the digits before the point, the digits after it; the digits
\* past the 17th do not change the double.
RECURSIVE DigitsPrefix(_)
DigitsPrefix(cs) ==
  IF cs # <<>> /\ IsDigitChar(Head(cs)) THEN <<Head(cs)>> \o DigitsPrefix(Tail(cs)) ELSE <<>>

RECURSIVE DigitsValue(_)
DigitsValue(cs) ==
  IF cs = <<>> THEN 0 ELSE 10 * DigitsValue(SubSeq(cs, 1, Len(cs) - 1)) + CharDigit(cs[Len(cs)])

PadZeros(cs, n) == [i \in 1..n |-> IF i <= Len(cs) THEN cs[i] ELSE "0"]

parseFloat(cs) ==
  LET integer == DigitsPrefix(cs)
      rest == SubSeq(cs, Len(integer) + 1, Len(cs))
      fraction == IF rest # <<>> /\ Head(rest) = "."
                  THEN PadZeros(DigitsPrefix(Tail(rest)), FractionDigits)
                  ELSE PadZeros(<<>>, FractionDigits)
  IN Num(100 * DigitsValue(integer) + DigitsValue(SubSeq(fraction, 1, 2)),
         DigitsValue(SubSeq(fraction, 3, FractionDigits)))

\* A route parameter: a string, or absent (undefined).
Param(chars) == [defined |-> TRUE, chars |-> chars]
AbsentParam == [defined |-> FALSE, chars |-> <<>>]
\* A string route parameter used as a condition: undefined and '' are falsy.
Truthy(p) == p.defined /\ p.chars # <<>>

\* ------------------------------------------------------------ file system
\* The audio files present before any processing.
InitialFiles == [u \in {CacheDirectory \o "recording.m4a", CacheDirectory \o "song.mp3"} |->
                   IF u = CacheDirectory \o "recording.m4a" THEN "voice+band" ELSE "song"]

\* A URI that resolves to nothing (a file deleted from the cache).
MissingUri == CacheDirectory \o "gone.m4a"

\* FileSystem.copyAsync({from, to}) when it resolves.
CopyFile(fs, from, to) ==
  [p \in DOMAIN fs \cup {to} |-> IF p = to THEN fs[from] ELSE fs[p]]

\* ------------------------------------------------- results of the two stubs
ProcessingSuccess(vocalTrack, instrumentalTrack) ==
  [success |-> TRUE, vocalTrack |-> vocalTrack,
   instrumentalTrack |-> instrumentalTrack, error |-> Undefined]

ProcessingFailure(error) ==
  [success |-> FALSE, vocalTrack |-> Undefined,
   instrumentalTrack |-> Undefined, error |-> error]

MergeSuccess(outputUri) ==
  [success |-> TRUE, outputUri |-> outputUri, error |-> Undefined]

MergeFailure(error) ==
  [success |-> FALSE, outputUri |-> Undefined, error |-> error]

NoResult == [success |-> FALSE, error |-> Undefined]

\* The promise of an async call: pending, then fulfilled with a value or rejected.
Fulfilled(result) == [outcome |-> "fulfilled", result |-> result]
Rejected == [outcome |-> "rejected", result |-> NoResult]

\* catch (error) of nativeProcessAudio: the failure is returned as a value.
NativeProcessCatchLeaks == Rejected
NativeProcessCatch == Fulfilled(ProcessingFailure("Failed to process audio on device."))

\* catch (error) of nativeMergeAudio.
NativeMergeCatch == Fulfilled(MergeFailure("Failed to merge audio tracks on device."))

\* const vocalTrack = `${audioUri}_vocals` ... of webProcessAudio
WebProcessResult(uri) ==
  Fulfilled(ProcessingSuccess(uri \o "_vocals", uri \o "_instrumental"))

\* const outputUri = `mixed_${Date.now()}.mp3` of webMergeAudio
WebMergeResult(t) == Fulfilled(MergeSuccess("mixed_" \o ToString(t) \o ".mp3"))

\* const tempDir = `${FileSystem.cacheDirectory}temp_${Date.now()}/`
TempDirName(t) == CacheDirectory \o "temp_" \o ToString(t) \o "/"

\* const outputUri = `${FileSystem.cacheDirectory}mixed_${Date.now()}.mp3`
NativeOutputUri(t) == CacheDirectory \o "mixed_" \o ToString(t) \o ".mp3"

IdleCall == [fn |-> "none", pc |-> "idle", outcome |-> "none", result |-> NoResult]

InitUtil ==
  /\ platformOS \in Platforms
  /\ now = 0
  /\ files = InitialFiles
  /\ dirs = {CacheDirectory}
  /\ call = IdleCall

\* ------------------------------------------------------------------ clock
\* Time passes while the exploration's horizon is not reached, and beyond it
\* until the timer of the call in flight has fired.
Tick ==
  /\ \/ now < MaxTicks * TickMs
     \/ call.pc = "sleep" /\ now < call.wakeAt
  /\ now' = now + TickMs
  /\ UNCHANGED <<platformOS, files, dirs, call>>
  /\ UNCHANGED outsideUtil

\* ------------------------------------------------------- processingAudio
\* The call: processingAudio dispatches on Platform.OS; both variants first
\* await the 3000 ms timer.
ProcessingAudioCalled(uri) ==
  [fn |-> "processingAudio", pc |-> "sleep", outcome |-> "pending", result |-> NoResult,
   audioUri |-> uri, wakeAt |-> now + ProcessSleepMs,
   before |-> DOMAIN files, tempDir |-> Undefined]

ProcessingAudioCall(uri) ==
  /\ call.pc \in {"idle", "done"}
  /\ now < MaxTicks * TickMs
  /\ call' = ProcessingAudioCalled(uri)
  /\ UNCHANGED <<platformOS, now, files, dirs>>
  /\ UNCHANGED outsideUtil

ProcSettle(p) == [call EXCEPT !.pc = "done", !.outcome = p.outcome, !.result = p.result]

\* The timer fires. Web: the result is built from the input URI alone.
\* Native: createTempDirectory starts.
ProcAwake ==
  /\ call.fn = "processingAudio"
  /\ call.pc = "sleep"
  /\ now >= call.wakeAt
  /\ IF platformOS = "web"
     THEN call' = ProcSettle(WebProcessResult(call.audioUri))
     ELSE call' = [call EXCEPT !.pc = "getInfo", !.tempDir = TempDirName(now)]
  /\ UNCHANGED <<platformOS, now, files, dirs>>
  /\ UNCHANGED outsideUtil

\* createTempDirectory: FileSystem.getInfoAsync(tempDir); a rejection is
\* rethrown and lands in nativeProcessAudio's catch.
ProcGetInfo ==
  /\ call.pc = "getInfo"
  /\ \E ok \in BOOLEAN :
       IF ok
       THEN call' = [call EXCEPT !.pc = IF call.tempDir \in dirs THEN "copyVocal" ELSE "mkdir"]
       ELSE call' = ProcSettle(NativeProcessCatch)
  /\ UNCHANGED <<platformOS, now, files, dirs>>
  /\ UNCHANGED outsideUtil

\* createTempDirectory: FileSystem.makeDirectoryAsync(tempDir, {intermediates: true})
ProcMkdir ==
  /\ call.pc = "mkdir"
  /\ \E ok \in BOOLEAN :
       IF ok
       THEN /\ dirs' = dirs \cup {call.tempDir}
            /\ call' = [call EXCEPT !.pc = "copyVocal"]
       ELSE /\ dirs' = dirs
            /\ call' = ProcSettle(NativeProcessCatch)
  /\ UNCHANGED <<platformOS, now, files>>
  /\ UNCHANGED outsideUtil

\* FileSystem.copyAsync({from: audioUri, to: vocalTrack}); it rejects when the
\* source is missing and may reject on any I/O error.
ProcCopyVocal ==
  /\ call.pc = "copyVocal"
  /\ \E ok \in BOOLEAN :
       IF ok /\ call.audioUri \in DOMAIN files
       THEN /\ files' = CopyFile(files, call.audioUri, call.tempDir \o "vocals.mp3")
            /\ call' = [call EXCEPT !.pc = "copyInstrumental"]
       ELSE /\ files' = files
            /\ call' = ProcSettle(NativeProcessCatch)
  /\ UNCHANGED <<platformOS, now, dirs>>
  /\ UNCHANGED outsideUtil

\* FileSystem.copyAsync({from: audioUri, to: instrumentalTrack}), then the
\* success result.
ProcCopyInstrumental ==
  /\ call.pc = "copyInstrumental"
  /\ \E ok \in BOOLEAN :
       IF ok /\ call.audioUri \in DOMAIN files
       THEN /\ files' = CopyFile(files, call.audioUri, call.tempDir \o "instrumental.mp3")
            /\ call' = ProcSettle(Fulfilled(ProcessingSuccess(call.tempDir \o "vocals.mp3",
                                                               call.tempDir \o "instrumental.mp3")))
       ELSE /\ files' = files
            /\ call' = ProcSettle(NativeProcessCatch)
  /\ UNCHANGED <<platformOS, now, dirs>>
  /\ UNCHANGED outsideUtil

ProcSteps == ProcAwake \/ ProcGetInfo \/ ProcMkdir \/ ProcCopyVocal \/ ProcCopyInstrumental

\* ------------------------------------------------------- mergeAudioTracks
\* The volumes the stub is called with directly.
Volumes == {Num(0, 0), One}

MergeAudioTracksCalled(vocalUri, instrumentalUri, vocalVolume, instrumentalVolume) ==
  [fn |-> "mergeAudioTracks", pc |-> "sleep", outcome |-> "pending", result |-> NoResult,
   vocalUri |-> vocalUri, instrumentalUri |-> instrumentalUri,
   vocalVolume |-> vocalVolume, instrumentalVolume |-> instrumentalVolume,
   wakeAt |-> now + MergeSleepMs, before |-> DOMAIN files, outputUri |-> Undefined]

MergeAudioTracksCall(vocalUri, instrumentalUri, vocalVolume, instrumentalVolume) ==
  /\ call.pc \in {"idle", "done"}
  /\ now < MaxTicks * TickMs
  /\ call' = MergeAudioTracksCalled(vocalUri, instrumentalUri, vocalVolume, instrumentalVolume)
  /\ UNCHANGED <<platformOS, now, files, dirs>>
  /\ UNCHANGED outsideUtil

MergeSettle(p) == [call EXCEPT !.pc = "done", !.outcome = p.outcome, !.result = p.result]

\* The timer fires and the output URI is built from Date.now().
MergeAwake ==
  /\ call.fn = "mergeAudioTracks"
  /\ call.pc = "sleep"
  /\ now >= call.wakeAt
  /\ IF platformOS = "web"
     THEN call' = MergeSettle(WebMergeResult(now))
     ELSE call' = [call EXCEPT !.pc = "copy", !.outputUri = NativeOutputUri(now)]
  /\ UNCHANGED <<platformOS, now, files, dirs>>
  /\ UNCHANGED outsideUtil

\* FileSystem.copyAsync({from: vocalUri, to: outputUri}), then the success result.
MergeCopy ==
  /\ call.pc = "copy"
  /\ \E ok \in BOOLEAN :
       IF ok /\ call.vocalUri \in DOMAIN files
       THEN /\ files' = CopyFile(files, call.vocalUri, call.outputUri)
            /\ call' = MergeSettle(Fulfilled(MergeSuccess(call.outputUri)))
       ELSE /\ files' = files
            /\ call' = MergeSettle(NativeMergeCatch)
  /\ UNCHANGED <<platformOS, now, dirs>>
  /\ UNCHANGED outsideUtil

MergeSteps == MergeAwake \/ MergeCopy

\* ------------------------------------------- the two stubs called directly
CallableUris == DOMAIN files \cup {MissingUri}

CallProcessing == \E u \in CallableUris : ProcessingAudioCall(u)

CallMerge ==
  \E v \in CallableUris, i \in CallableUris, vv \in Volumes, iv \in Volumes :
    MergeAudioTracksCall(v, i, vv, iv)

NextUtil == Tick \/ CallProcessing \/ ProcSteps \/ CallMerge \/ MergeSteps


\* ==================================================== Record screen (index)
\* Bounds of the Record screen's exploration.
MaxTasks == 2        \* handlers awaiting a platform call at the same time
MaxRecordings == 2   \* Audio.Recording objects created
MaxSounds == 2       \* Audio.Sound objects created
MaxTimers == 2       \* setInterval calls
MaxPosition == 1     \* ticks of the duration timer that are counted

Null == "<null>"
NoId == 0
NoOutput == ""

SoundIds == 1..MaxSounds

NoTask == [op |-> "none", pc |-> "none", rec |-> NoId, st |-> "idle", snd |-> NoId,
           playing |-> FALSE, uri |-> Null]

\* An Audio.Sound that was never created.
NoSound == [created |-> FALSE, loaded |-> FALSE, playing |-> FALSE, pos |-> 0, cb |-> NoId]

\* recording.getURI() of the recording with this id
RecordingUri(id) == "file:///recordings/take" \o ToString(id) \o ".m4a"

\* saveAudioToCache: const destination = `${FileSystem.cacheDirectory}${filename}`
CacheDestination(filename) == CacheDirectory \o filename

InitRecord ==
  /\ mounted = TRUE
  /\ permission = "pending"
  /\ recording = NoId
  /\ recordingStatus = "idle"
  /\ audioUri = Null
  /\ sound = NoId
  /\ isPlaying = FALSE
  /\ duration = 0
  /\ position = 0
  /\ positionRef = 0
  /\ durationTimer = NoId
  /\ timers = {}
  /\ nextTimer = 1
  /\ nextRecorder = 1
  /\ sounds = [i \in SoundIds |-> NoSound]
  /\ tasks = EmptyBag
  /\ console = NoOutput
  /\ alert = NoOutput
  /\ unhandled = NoOutput

\* The handlers in flight, and a handler starting, ending or moving on.
InFlight == BagToSet(tasks)
CanSpawn == BagCardinality(tasks) < MaxTasks
Spawn(t) == tasks (+) SetToBag({t})
Finish(t) == tasks (-) SetToBag({t})
Become(t, u) == (tasks (-) SetToBag({t})) (+) SetToBag({u})

\* clearInterval(durationTimer.current), guarded by if (durationTimer.current)
ClearDurationTimer == timers \ {durationTimer}

\* sound.stopAsync() resolved
Stopped(snds, id) == [snds EXCEPT ![id].playing = FALSE, ![id].pos = 0]
\* sound.unloadAsync() resolved
Unloaded(snds, id) == [snds EXCEPT ![id].loaded = FALSE, ![id].playing = FALSE, ![id].pos = 0]

\* -------------------------------------------------- mount effect (24-43)
\* The permission request is answered (or fails) before the user can tap
\* anything: the system's permission dialog is modal.
\* getPermissions(): await Audio.requestPermissionsAsync(), called with no catch.
GetPermissions ==
  /\ permission = "pending"
  /\ \E outcome \in {"granted", "denied", "rejected"} :
       /\ permission' = "settled"
       /\ alert' = IF outcome = "denied" THEN "Permission required" ELSE NoOutput
       /\ unhandled' = IF outcome = "rejected" THEN "requestPermissionsAsync" ELSE NoOutput
  /\ console' = NoOutput
  /\ UNCHANGED <<outsideRecord, mounted, recording, recordingStatus, audioUri, sound, isPlaying, duration,
                 position, positionRef, durationTimer, timers, nextTimer, nextRecorder,
                 sounds, tasks>>

\* The effect's cleanup: clearInterval, then stopPlayback() of the first
\* render's closure, in which sound is null.
Unmount ==
  /\ mounted
  /\ mounted' = FALSE
  /\ timers' = ClearDurationTimer
  /\ console' = NoOutput
  /\ alert' = NoOutput
  /\ UNCHANGED <<outsideRecord, permission, recording, recordingStatus, audioUri, sound, isPlaying, duration,
                 position, positionRef, durationTimer, nextTimer, nextRecorder, sounds,
                 tasks>> /\ unhandled' = NoOutput

\* The interval callback: positionRef.current += 0.1; setPosition(positionRef.current)
IntervalFires ==
  /\ mounted
  /\ timers # {}
  /\ positionRef < MaxPosition
  /\ positionRef' = positionRef + 1
  /\ position' = positionRef'
  /\ console' = NoOutput
  /\ alert' = NoOutput
  /\ UNCHANGED <<outsideRecord, mounted, permission, recording, recordingStatus, audioUri, sound, isPlaying,
                 duration, durationTimer, timers, nextTimer, nextRecorder, sounds, tasks>> /\ unhandled' = NoOutput

\* ------------------------------------------------- startRecording (45-84)
\* The tap on the record button, shown while recordingStatus is 'idle'. With
\* a previous recording, stopPlayback() runs first and audioUri is cleared.
StartRecording ==
  /\ mounted
  /\ permission = "settled"
  /\ recordingStatus = "idle"
  /\ CanSpawn
  /\ LET first == IF audioUri # Null /\ sound # NoId THEN "stopAsync" ELSE "setAudioMode"
     IN tasks' = Spawn(
                    [NoTask EXCEPT !.op = "startRecording", !.pc = first, !.snd = sound])
  /\ audioUri' = IF sound = NoId THEN Null ELSE audioUri
  /\ console' = NoOutput
  /\ alert' = NoOutput
  /\ UNCHANGED <<outsideRecord, mounted, permission, recording, recordingStatus, sound, isPlaying, duration,
                 position, positionRef, durationTimer, timers, nextTimer, nextRecorder,
                 sounds>> /\ unhandled' = NoOutput

\* stopPlayback (216-227) inside startRecording: await sound.stopAsync(); a
\* rejection is caught and logged by stopPlayback itself.
StartStopAsync ==
  \E t \in InFlight, ok \in BOOLEAN :
    /\ mounted
    /\ t.op = "startRecording" /\ t.pc = "stopAsync"
    /\ IF ok /\ sounds[t.snd].loaded
       THEN /\ sounds' = Stopped(sounds, t.snd)
            /\ tasks' = Become(t, [t EXCEPT !.pc = "unloadAsync"])
            /\ console' = NoOutput
            /\ audioUri' = audioUri
       ELSE /\ sounds' = sounds
            /\ tasks' = Become(t, [t EXCEPT !.pc = "setAudioMode"])
            /\ console' = "Failed to stop playback"
            /\ audioUri' = Null
    /\ alert' = NoOutput
    /\ UNCHANGED <<outsideRecord, mounted, permission, recording, recordingStatus, sound, isPlaying, duration,
                   position, positionRef, durationTimer, timers, nextTimer, nextRecorder>> /\ unhandled' = NoOutput

\* stopPlayback inside startRecording: await sound.unloadAsync(); setSound(null);
\* setIsPlaying(false). Back in startRecording: setAudioUri(null).
StartUnloadAsync ==
  \E t \in InFlight, ok \in BOOLEAN :
    /\ mounted
    /\ t.op = "startRecording" /\ t.pc = "unloadAsync"
    /\ IF ok
       THEN /\ sounds' = Unloaded(sounds, t.snd)
            /\ sound' = NoId
            /\ isPlaying' = FALSE
            /\ console' = NoOutput
       ELSE /\ UNCHANGED <<sounds, sound, isPlaying>>
            /\ console' = "Failed to stop playback"
    /\ audioUri' = Null
    /\ tasks' = Become(t, [t EXCEPT !.pc = "setAudioMode"])
    /\ alert' = NoOutput
    /\ UNCHANGED <<outsideRecord, mounted, permission, recording, recordingStatus, duration, position,
                   positionRef, durationTimer, timers, nextTimer, nextRecorder>> /\ unhandled' = NoOutput

\* catch (err) of startRecording
StartRecordingCatch ==
  [console |-> "Failed to start recording",
   alert |-> "Error: Failed to start recording. Please try again."]

\* await Audio.setAudioModeAsync({allowsRecordingIOS: true, ...})
StartSetAudioMode ==
  \E t \in InFlight, ok \in BOOLEAN :
    /\ mounted
    /\ t.op = "startRecording" /\ t.pc = "setAudioMode"
    /\ IF ok
       THEN /\ tasks' = Become(t, [t EXCEPT !.pc = "createAsync"])
            /\ console' = NoOutput
            /\ alert' = NoOutput
       ELSE /\ tasks' = Finish(t)
            /\ console' = StartRecordingCatch.console
            /\ alert' = StartRecordingCatch.alert
    /\ UNCHANGED <<outsideRecord, mounted, permission, recording, recordingStatus, audioUri, sound, isPlaying,
                   duration, position, positionRef, durationTimer, timers, nextTimer,
                   nextRecorder, sounds>> /\ unhandled' = NoOutput

\* What startRecording stores once Audio.Recording.createAsync has resolved
\* with the recording `rec`: lines 62-79.
RecordingStartedNoReset(rec) ==
  [recording |-> rec, recordingStatus |-> "recording", positionRef |-> positionRef,
   position |-> position, timers |-> ClearDurationTimer \cup {nextTimer},
   durationTimer |-> nextTimer]
RecordingStarted(rec) ==
  [recording |-> rec, recordingStatus |-> "recording", positionRef |-> 0,
   position |-> 0, timers |-> ClearDurationTimer \cup {nextTimer},
   durationTimer |-> nextTimer]

\* await Audio.Recording.createAsync(HIGH_QUALITY), then the rest of the try block
StartCreateAsync ==
  \E t \in InFlight, ok \in BOOLEAN :
    /\ mounted
    /\ t.op = "startRecording" /\ t.pc = "createAsync"
    /\ IF ok /\ nextRecorder <= MaxRecordings /\ nextTimer <= MaxTimers
       THEN LET r == RecordingStarted(nextRecorder) IN
            /\ recording' = r.recording
            /\ recordingStatus' = r.recordingStatus
            /\ positionRef' = r.positionRef
            /\ position' = r.position
            /\ timers' = r.timers
            /\ durationTimer' = r.durationTimer
            /\ nextTimer' = nextTimer + 1
            /\ nextRecorder' = nextRecorder + 1
            /\ unhandled' = NoOutput
            /\ console' = NoOutput
            /\ alert' = NoOutput
       ELSE /\ UNCHANGED <<recording, recordingStatus, positionRef, position, timers,
                           durationTimer, nextTimer, nextRecorder>> /\ unhandled' = NoOutput
            /\ console' = StartRecordingCatch.console
            /\ alert' = StartRecordingCatch.alert
    /\ tasks' = Finish(t)
    /\ UNCHANGED <<outsideRecord, mounted, permission, audioUri, sound, isPlaying, duration, sounds>>

\* -------------------------------------------------- stopRecording (86-123)
\* catch (err) of stopRecording
StopRecordingCatch ==
  [console |-> "Failed to stop recording",
   alert |-> "Error: Failed to stop recording. Please try again."]

\* The tap on the stop button, shown while recordingStatus is not 'idle':
\* setRecordingStatus('idle') comes before the first await.
StopRecording ==
  /\ mounted
  /\ permission = "settled"
  /\ recordingStatus # "idle"
  /\ recording # NoId
  /\ CanSpawn
  /\ recordingStatus' = "idle"
  /\ tasks' = Spawn(
                 [NoTask EXCEPT !.op = "stopRecording", !.pc = "stopAndUnload",
                                !.rec = recording, !.snd = sound])
  /\ console' = NoOutput
  /\ alert' = NoOutput
  /\ UNCHANGED <<outsideRecord, mounted, permission, recording, audioUri, sound, isPlaying, duration,
                 position, positionRef, durationTimer, timers, nextTimer, nextRecorder,
                 sounds>> /\ unhandled' = NoOutput

\* if (!recording) return;
StopRecordingNoHandle ==
  /\ mounted
  /\ permission = "settled"
  /\ recordingStatus # "idle"
  /\ recording = NoId
  /\ console' = NoOutput
  /\ alert' = NoOutput
  /\ UNCHANGED <<outsideRecord, mounted, permission, recording, recordingStatus, audioUri, sound,
                 isPlaying, duration, position, positionRef, durationTimer, timers,
                 nextTimer, nextRecorder, sounds, tasks>> /\ unhandled' = NoOutput

\* await recording.stopAndUnloadAsync(), then clearInterval(durationTimer.current)
StopAndUnload ==
  \E t \in InFlight, ok \in BOOLEAN :
    /\ mounted
    /\ t.op = "stopRecording" /\ t.pc = "stopAndUnload"
    /\ IF ok
       THEN /\ timers' = ClearDurationTimer
            /\ files' = [p \in DOMAIN files \cup {RecordingUri(t.rec)} |->
                           IF p = RecordingUri(t.rec) THEN "take" \o ToString(t.rec)
                           ELSE files[p]]
            /\ tasks' = Become(t, [t EXCEPT !.pc = "setAudioMode"])
            /\ console' = NoOutput
            /\ alert' = NoOutput
       ELSE /\ UNCHANGED <<timers, files>>
            /\ tasks' = Finish(t)
            /\ console' = StopRecordingCatch.console
            /\ alert' = StopRecordingCatch.alert
    /\ UNCHANGED <<outsideRecordNoFiles, mounted, permission, recording, recordingStatus, audioUri, sound,
                   isPlaying, duration, position, positionRef, durationTimer, nextTimer,
                   nextRecorder, sounds>> /\ unhandled' = NoOutput

\* loadAudio(uri), called without await: its first await
LoadAudioTask(t, uri) ==
  [NoTask EXCEPT !.op = "loadAudio", !.pc = IF t.snd # NoId THEN "unloadAsync" ELSE "createAsync",
                 !.snd = t.snd, !.uri = uri]

\* await Audio.setAudioModeAsync({allowsRecordingIOS: false}); recording.getURI();
\* setAudioUri(uri). On web saveAudioToCache returns the URI at once and the
\* handler runs to its end.
StopSetAudioMode ==
  \E t \in InFlight, ok \in BOOLEAN, hasUri \in BOOLEAN :
    /\ mounted
    /\ t.op = "stopRecording" /\ t.pc = "setAudioMode"
    /\ IF ~ok
       THEN /\ tasks' = Finish(t)
            /\ console' = StopRecordingCatch.console
            /\ alert' = StopRecordingCatch.alert
            /\ UNCHANGED <<audioUri, recording>> /\ unhandled' = NoOutput
       ELSE /\ console' = NoOutput
            /\ alert' = NoOutput
            /\ IF ~hasUri
               THEN /\ tasks' = Finish(t)
                    /\ recording' = NoId
                    /\ unhandled' = NoOutput
                    /\ audioUri' = audioUri
               ELSE /\ audioUri' = RecordingUri(t.rec)
                    /\ IF platformOS = "web"
                       THEN /\ tasks' = Become(t, LoadAudioTask(t, RecordingUri(t.rec)))
                            /\ recording' = NoId
                            /\ unhandled' = NoOutput
                       ELSE /\ tasks' = Become(t, [t EXCEPT !.pc = "saveGetInfo",
                                                              !.uri = RecordingUri(t.rec)])
                            /\ UNCHANGED <<recording>> /\ unhandled' = NoOutput
    /\ UNCHANGED <<outsideRecord, mounted, permission, recordingStatus, sound, isPlaying, duration,
                   position, positionRef, durationTimer, timers, nextTimer, nextRecorder,
                   sounds>>

\* saveAudioToCache (part_004 17-22): await FileSystem.getInfoAsync(destination);
\* a rejection is rethrown into stopRecording's catch.
StopSaveGetInfo ==
  \E t \in InFlight, ok \in BOOLEAN :
    /\ mounted
    /\ t.op = "stopRecording" /\ t.pc = "saveGetInfo"
    /\ IF ok
       THEN /\ tasks' = Become(t, [t EXCEPT !.pc =
                           IF CacheDestination("recording.m4a") \in DOMAIN files
                           THEN "saveDelete" ELSE "saveCopy"])
            /\ console' = NoOutput
            /\ alert' = NoOutput
       ELSE /\ tasks' = Finish(t)
            /\ console' = StopRecordingCatch.console
            /\ alert' = StopRecordingCatch.alert
    /\ UNCHANGED <<outsideRecord, mounted, permission, recording, recordingStatus, audioUri, sound,
                   isPlaying, duration, position, positionRef, durationTimer, timers,
                   nextTimer, nextRecorder, sounds>> /\ unhandled' = NoOutput

\* saveAudioToCache: await FileSystem.deleteAsync(destination)
StopSaveDelete ==
  \E t \in InFlight, ok \in BOOLEAN :
    LET dest == CacheDestination("recording.m4a") IN
    /\ mounted
    /\ t.op = "stopRecording" /\ t.pc = "saveDelete"
    /\ IF ok
       THEN /\ files' = [p \in DOMAIN files \ {dest} |-> files[p]]
            /\ tasks' = Become(t, [t EXCEPT !.pc = "saveCopy"])
            /\ console' = NoOutput
            /\ alert' = NoOutput
       ELSE /\ files' = files
            /\ tasks' = Finish(t)
            /\ console' = StopRecordingCatch.console
            /\ alert' = StopRecordingCatch.alert
    /\ UNCHANGED <<outsideRecordNoFiles, mounted, permission, recording, recordingStatus, audioUri, sound,
                   isPlaying, duration, position, positionRef, durationTimer, timers,
                   nextTimer, nextRecorder, sounds>> /\ unhandled' = NoOutput

\* saveAudioToCache: await FileSystem.copyAsync({from: uri, to: destination});
\* back in stopRecording: loadAudio(uri); setRecording(null); Haptics.
StopSaveCopy ==
  \E t \in InFlight, ok \in BOOLEAN :
    LET dest == CacheDestination("recording.m4a") IN
    /\ mounted
    /\ t.op = "stopRecording" /\ t.pc = "saveCopy"
    /\ IF ok /\ t.uri \in DOMAIN files
       THEN /\ files' = CopyFile(files, t.uri, dest)
            /\ tasks' = Become(t, LoadAudioTask(t, t.uri))
            /\ recording' = NoId
            /\ unhandled' = NoOutput
            /\ console' = NoOutput
            /\ alert' = NoOutput
       ELSE /\ UNCHANGED <<files, recording>> /\ unhandled' = NoOutput
            /\ tasks' = Finish(t)
            /\ console' = StopRecordingCatch.console
            /\ alert' = StopRecordingCatch.alert
    /\ UNCHANGED <<outsideRecordNoFiles, mounted, permission, recordingStatus, audioUri, sound,
                   isPlaying, duration, position, positionRef, durationTimer, timers,
                   nextTimer, nextRecorder, sounds>>

\* ------------------------------------------------ pauseRecording (125-159)
\* The tap on the pause/resume button, shown while recordingStatus is not
\* 'idle'; the branch is taken on the recordingStatus of the tap's render.
PauseRecording ==
  /\ mounted
  /\ permission = "settled"
  /\ recordingStatus # "idle"
  /\ recording # NoId
  /\ CanSpawn
  /\ tasks' = Spawn(
                 [NoTask EXCEPT !.op = "pauseRecording",
                                !.pc = IF recordingStatus = "recording"
                                       THEN "pauseAsync" ELSE "startAsync",
                                !.rec = recording, !.st = recordingStatus])
  /\ console' = NoOutput
  /\ alert' = NoOutput
  /\ UNCHANGED <<outsideRecord, mounted, permission, recording, recordingStatus, audioUri, sound,
                 isPlaying, duration, position, positionRef, durationTimer, timers,
                 nextTimer, nextRecorder, sounds>> /\ unhandled' = NoOutput

\* if (!recording) return;
PauseRecordingNoHandle ==
  /\ mounted
  /\ permission = "settled"
  /\ recordingStatus # "idle"
  /\ recording = NoId
  /\ console' = NoOutput
  /\ alert' = NoOutput
  /\ UNCHANGED <<outsideRecord, mounted, permission, recording, recordingStatus, audioUri, sound,
                 isPlaying, duration, position, positionRef, durationTimer, timers,
                 nextTimer, nextRecorder, sounds, tasks>> /\ unhandled' = NoOutput

\* catch (err) of pauseRecording: console.error only
PauseRecordingCatch ==
  [console |-> "Failed to pause/resume recording", alert |-> NoOutput]

\* What pauseRecording stores once pauseAsync has resolved (131-135), and once
\* startAsync has resolved (143-149): the new interval goes on from
\* positionRef.current.
RecordingPausedTimerRuns == [recordingStatus |-> "paused", timers |-> timers]
RecordingPaused == [recordingStatus |-> "paused", timers |-> ClearDurationTimer]
RecordingResumed ==
  [recordingStatus |-> "recording", positionRef |-> positionRef,
   timers |-> timers \cup {nextTimer}, durationTimer |-> nextTimer]

\* await recording.pauseAsync(); setRecordingStatus('paused'); clearInterval
PauseAsync ==
  \E t \in InFlight, ok \in BOOLEAN :
    /\ mounted
    /\ t.op = "pauseRecording" /\ t.pc = "pauseAsync"
    /\ IF ok
       THEN /\ recordingStatus' = RecordingPaused.recordingStatus
            /\ timers' = RecordingPaused.timers
            /\ unhandled' = NoOutput
            /\ console' = NoOutput
            /\ alert' = NoOutput
       ELSE /\ UNCHANGED <<recordingStatus, timers>> /\ unhandled' = NoOutput
            /\ console' = PauseRecordingCatch.console
            /\ alert' = PauseRecordingCatch.alert
    /\ tasks' = Finish(t)
    /\ UNCHANGED <<outsideRecord, mounted, permission, recording, audioUri, sound, isPlaying,
                   duration, position, positionRef, durationTimer, nextTimer, nextRecorder,
                   sounds>>

\* await recording.startAsync(); setRecordingStatus('recording');
\* durationTimer.current = setInterval(...)
ResumeAsync ==
  \E t \in InFlight, ok \in BOOLEAN :
    /\ mounted
    /\ t.op = "pauseRecording" /\ t.pc = "startAsync"
    /\ IF ok /\ nextTimer <= MaxTimers
       THEN /\ recordingStatus' = RecordingResumed.recordingStatus
            /\ durationTimer' = RecordingResumed.durationTimer
            /\ timers' = RecordingResumed.timers
            /\ nextTimer' = nextTimer + 1
            /\ unhandled' = NoOutput
            /\ console' = NoOutput
            /\ alert' = NoOutput
       ELSE /\ UNCHANGED <<recordingStatus, durationTimer, timers, nextTimer>> /\ unhandled' = NoOutput
            /\ console' = PauseRecordingCatch.console
            /\ alert' = PauseRecordingCatch.alert
    /\ tasks' = Finish(t)
    /\ UNCHANGED <<outsideRecord, mounted, permission, recording, audioUri, sound, isPlaying,
                   duration, position, positionRef, nextRecorder, sounds>>

\* ------------------------------------------------------ loadAudio (161-183)
\* catch (err) of the Record screen's loadAudio: console.error only
LoadAudioCatch == [console |-> "Failed to load audio", alert |-> NoOutput]

\* if (sound) await sound.unloadAsync(), with the sound of the closure
LoadUnloadAsync ==
  \E t \in InFlight, ok \in BOOLEAN :
    /\ mounted
    /\ t.op = "loadAudio" /\ t.pc = "unloadAsync"
    /\ IF ok
       THEN /\ sounds' = Unloaded(sounds, t.snd)
            /\ tasks' = Become(t, [t EXCEPT !.pc = "createAsync"])
            /\ console' = NoOutput
            /\ alert' = NoOutput
       ELSE /\ sounds' = sounds
            /\ tasks' = Finish(t)
            /\ console' = LoadAudioCatch.console
            /\ alert' = LoadAudioCatch.alert
    /\ UNCHANGED <<outsideRecord, mounted, permission, recording, recordingStatus, audioUri, sound,
                   isPlaying, duration, position, positionRef, durationTimer, timers,
                   nextTimer, nextRecorder>> /\ unhandled' = NoOutput

UncreatedSounds == {i \in SoundIds : ~sounds[i].created}

\* await Audio.Sound.createAsync({uri}, {shouldPlay: false}, onPlaybackStatusUpdate);
\* setSound(newSound). The callback is the closure of the render that called
\* loadAudio: its `sound` is that render's.
LoadCreateAsync ==
  \E t \in InFlight, ok \in BOOLEAN :
    /\ mounted
    /\ t.op = "loadAudio" /\ t.pc = "createAsync"
    /\ IF ok /\ UncreatedSounds # {} /\ t.uri \in DOMAIN files
       THEN LET new == CHOOSE i \in UncreatedSounds : \A j \in UncreatedSounds : i <= j IN
            /\ sounds' = [sounds EXCEPT ![new] =
                            [created |-> TRUE, loaded |-> TRUE, playing |-> FALSE,
                             pos |-> 0, cb |-> t.snd]]
            /\ sound' = new
            /\ tasks' = Become(t, [t EXCEPT !.pc = "getStatus", !.snd = new])
            /\ console' = NoOutput
            /\ alert' = NoOutput
       ELSE /\ UNCHANGED <<sounds, sound>>
            /\ tasks' = Finish(t)
            /\ console' = LoadAudioCatch.console
            /\ alert' = LoadAudioCatch.alert
    /\ UNCHANGED <<outsideRecord, mounted, permission, recording, recordingStatus, audioUri,
                   isPlaying, duration, position, positionRef, durationTimer, timers,
                   nextTimer, nextRecorder>> /\ unhandled' = NoOutput

\* const status = await newSound.getStatusAsync(); setDuration(...)
LoadGetStatus ==
  \E t \in InFlight, ok \in BOOLEAN :
    /\ mounted
    /\ t.op = "loadAudio" /\ t.pc = "getStatus"
    /\ IF ok
       THEN /\ duration' = IF sounds[t.snd].loaded THEN 1 ELSE duration
            /\ console' = NoOutput
            /\ alert' = NoOutput
       ELSE /\ duration' = duration
            /\ console' = LoadAudioCatch.console
            /\ alert' = LoadAudioCatch.alert
    /\ tasks' = Finish(t)
    /\ UNCHANGED <<outsideRecord, mounted, permission, recording, recordingStatus, audioUri, sound,
                   isPlaying, position, positionRef, durationTimer, timers, nextTimer,
                   nextRecorder, sounds>> /\ unhandled' = NoOutput

\* ------------------------------------------------- togglePlayback (195-214)
\* The tap on the play/pause button, shown while recordingStatus is 'idle'
\* and audioUri is set.
TogglePlayback ==
  /\ mounted
  /\ permission = "settled"
  /\ recordingStatus = "idle"
  /\ audioUri # Null
  /\ sound # NoId
  /\ CanSpawn
  /\ tasks' = Spawn(
                 [NoTask EXCEPT !.op = "togglePlayback",
                                !.pc = IF isPlaying THEN "pauseAsync" ELSE "playAsync",
                                !.snd = sound, !.playing = isPlaying])
  /\ console' = NoOutput
  /\ alert' = NoOutput
  /\ UNCHANGED <<outsideRecord, mounted, permission, recording, recordingStatus, audioUri, sound,
                 isPlaying, duration, position, positionRef, durationTimer, timers,
                 nextTimer, nextRecorder, sounds>> /\ unhandled' = NoOutput

\* if (!sound) return;
TogglePlaybackNoSound ==
  /\ mounted
  /\ permission = "settled"
  /\ recordingStatus = "idle"
  /\ audioUri # Null
  /\ sound = NoId
  /\ console' = NoOutput
  /\ alert' = NoOutput
  /\ UNCHANGED <<outsideRecord, mounted, permission, recording, recordingStatus, audioUri, sound,
                 isPlaying, duration, position, positionRef, durationTimer, timers,
                 nextTimer, nextRecorder, sounds, tasks>> /\ unhandled' = NoOutput

\* catch (err) of togglePlayback: console.error only
TogglePlaybackCatch == [console |-> "Failed to toggle playback", alert |-> NoOutput]

\* await sound.pauseAsync() / sound.playAsync(); setIsPlaying(...)
ToggleSettles ==
  \E t \in InFlight, ok \in BOOLEAN :
    /\ mounted
    /\ t.op = "togglePlayback"
    /\ IF ok /\ sounds[t.snd].loaded
       THEN /\ sounds' = [sounds EXCEPT ![t.snd].playing = (t.pc = "playAsync")]
            /\ isPlaying' = (t.pc = "playAsync")
            /\ unhandled' = NoOutput
            /\ console' = NoOutput
            /\ alert' = NoOutput
       ELSE /\ UNCHANGED <<sounds, isPlaying>> /\ unhandled' = NoOutput
            /\ console' = TogglePlaybackCatch.console
            /\ alert' = TogglePlaybackCatch.alert
    /\ tasks' = Finish(t)
    /\ UNCHANGED <<outsideRecord, mounted, permission, recording, recordingStatus, audioUri, sound,
                   duration, position, positionRef, durationTimer, timers, nextTimer,
                   nextRecorder>>

\* ----------------------------------------- onPlaybackStatusUpdate (185-193)
\* status.isLoaded && status.isPlaying: setPosition(status.positionMillis / 1000)
PlaybackProgress ==
  \E id \in SoundIds :
    /\ mounted
    /\ sounds[id].loaded /\ sounds[id].playing
    /\ sounds' = [sounds EXCEPT ![id].pos = 1]
    /\ position' = 1
    /\ console' = NoOutput
    /\ alert' = NoOutput
    /\ UNCHANGED <<outsideRecord, mounted, permission, recording, recordingStatus, audioUri, sound,
                   isPlaying, duration, positionRef, durationTimer, timers, nextTimer,
                   nextRecorder, tasks>> /\ unhandled' = NoOutput

\* status.didJustFinish: setIsPlaying(false); setPosition(0);
\* sound?.setPositionAsync(0) on the sound of the callback's closure, not
\* awaited: a rejection (the sound is unloaded) is handled by nothing.
PlaybackFinished ==
  \E id \in SoundIds, ok \in BOOLEAN :
    LET c == sounds[id].cb
        ended == [sounds EXCEPT ![id].playing = FALSE, ![id].pos = 1] IN
    /\ mounted
    /\ sounds[id].loaded /\ sounds[id].playing
    /\ isPlaying' = FALSE
    /\ position' = 0
    /\ IF c = NoId
       THEN /\ sounds' = ended
            /\ unhandled' = NoOutput
       ELSE IF ok /\ ended[c].loaded
            THEN /\ sounds' = [ended EXCEPT ![c].pos = 0]
                 /\ unhandled' = NoOutput
            ELSE /\ sounds' = ended
                 /\ unhandled' = "setPositionAsync"
    /\ console' = NoOutput
    /\ alert' = NoOutput
    /\ UNCHANGED <<outsideRecord, mounted, permission, recording, recordingStatus, audioUri, sound,
                   duration, positionRef, durationTimer, timers, nextTimer, nextRecorder,
                   tasks>>

NextRecord ==
  \/ GetPermissions \/ Unmount \/ IntervalFires
  \/ StartRecording \/ StartStopAsync \/ StartUnloadAsync \/ StartSetAudioMode
  \/ StartCreateAsync
  \/ StopRecording \/ StopRecordingNoHandle \/ StopAndUnload \/ StopSetAudioMode
  \/ StopSaveGetInfo \/ StopSaveDelete \/ StopSaveCopy
  \/ PauseRecording \/ PauseRecordingNoHandle \/ PauseAsync \/ ResumeAsync
  \/ LoadUnloadAsync \/ LoadCreateAsync \/ LoadGetStatus
  \/ TogglePlayback \/ TogglePlaybackNoSound \/ ToggleSettles
  \/ PlaybackProgress \/ PlaybackFinished

\* ============================================================ Editor screen
\* The position and duration display is left out: no handler reads it back
\* except togglePlayback's setPositionAsync argument.
InitEditor ==
  [mounted |-> FALSE, audioUri |-> Undefined,
   isProcessing |-> FALSE, isProcessed |-> FALSE,
   vocalTrack |-> Null, instrumentalTrack |-> Null,
   vocalVolume |-> One, instrumentalVolume |-> One,
   originalSound |-> FALSE, vocalSound |-> FALSE, instrumentalSound |-> FALSE,
   isPlaying |-> FALSE, playbackMode |-> "original"]

\* What the Editor's steps leave alone.
outsideEditor == <<recordScreen, export>>

\* The audioUri route parameter: a file, a file that is gone, or absent.
EditorUris == {CacheDirectory \o "recording.m4a", MissingUri, Undefined}

\* The volume effect (51-60): setVolumeAsync is called without await or catch
\* on the sounds that exist, in processed mode.
VolumeEffect(e, ok) ==
  IF e.playbackMode = "processed" /\ (e.vocalSound \/ e.instrumentalSound) /\ ~ok
  THEN "setVolumeAsync" ELSE NoOutput

\* catch (err) of loadOriginalAudio
LoadOriginalAudioCatch ==
  [console |-> "Failed to load original audio", alert |-> "Error: Failed to load audio file."]

\* The screen is pushed with its audioUri parameter; the mount effect starts
\* loadOriginalAudio(audioUri) when the parameter is there.
EditorOpen ==
  /\ ~editor.mounted
  /\ tasks = EmptyBag
  /\ \E uri \in EditorUris :
       /\ editor' = [InitEditor EXCEPT !.mounted = TRUE, !.audioUri = uri]
       /\ tasks' = IF uri # Undefined
                   THEN Spawn([NoTask EXCEPT !.op = "loadOriginalAudio", !.pc = "createAsync",
                                             !.uri = uri])
                   ELSE tasks
  /\ console' = NoOutput /\ alert' = NoOutput /\ unhandled' = NoOutput
  /\ UNCHANGED <<utilVars, outsideEditor>>

\* loadOriginalAudio: await Audio.Sound.createAsync({uri}, ...); setOriginalSound(sound)
EditorLoadCreateAsync ==
  \E t \in InFlight, ok \in BOOLEAN :
    /\ t.op = "loadOriginalAudio" /\ t.pc = "createAsync"
    /\ IF ok /\ t.uri \in DOMAIN files
       THEN /\ editor' = [editor EXCEPT !.originalSound = TRUE]
            /\ tasks' = Become(t, [t EXCEPT !.pc = "getStatusAsync"])
            /\ console' = NoOutput /\ alert' = NoOutput
       ELSE /\ editor' = editor
            /\ tasks' = Finish(t)
            /\ console' = LoadOriginalAudioCatch.console
            /\ alert' = LoadOriginalAudioCatch.alert
    /\ unhandled' = NoOutput
    /\ UNCHANGED <<utilVars, outsideEditor>>

\* loadOriginalAudio: await sound.getStatusAsync()
EditorLoadGetStatus ==
  \E t \in InFlight, ok \in BOOLEAN :
    /\ t.op = "loadOriginalAudio" /\ t.pc = "getStatusAsync"
    /\ tasks' = Finish(t)
    /\ console' = IF ok THEN NoOutput ELSE LoadOriginalAudioCatch.console
    /\ alert' = IF ok THEN NoOutput ELSE LoadOriginalAudioCatch.alert
    /\ unhandled' = NoOutput
    /\ UNCHANGED <<utilVars, outsideEditor, editor>>

\* ---------------------------------------------------- processAudio (122-153)
\* The process button is rendered in place of the mixer, and only while
\* isProcessing is false (347, 388-408).
ProcessButtonShown ==
  /\ editor.audioUri # Undefined
  /\ ~(editor.isProcessed /\ editor.playbackMode = "processed")
  /\ ~editor.isProcessing

\* stopAllPlayback's catch blocks log and go on: it never rejects.
StopAllPlaybackLog(ok) ==
  IF ~ok /\ (editor.originalSound \/ editor.vocalSound \/ editor.instrumentalSound)
  THEN "Failed to stop sound" ELSE NoOutput

\* The tap: setIsProcessing(true), then stopAllPlayback() starts with
\* setIsPlaying(false).
ProcessAudio ==
  /\ editor.mounted
  /\ ProcessButtonShown
  /\ CanSpawn
  /\ now < MaxTicks * TickMs
  /\ editor' = [editor EXCEPT !.isProcessing = TRUE, !.isPlaying = FALSE]
  /\ tasks' = Spawn([NoTask EXCEPT !.op = "processAudio", !.pc = "stopAllPlayback"])
  /\ console' = NoOutput /\ alert' = NoOutput /\ unhandled' = NoOutput
  /\ UNCHANGED <<utilVars, outsideEditor>>

\* await stopAllPlayback() is over; processingAudio(audioUri) is called.
ProcessStopAllPlayback ==
  \E t \in InFlight, ok \in BOOLEAN :
    /\ t.op = "processAudio" /\ t.pc = "stopAllPlayback"
    /\ call.pc = "idle"
    /\ call' = ProcessingAudioCalled(editor.audioUri)
    /\ tasks' = Become(t, [t EXCEPT !.pc = "processingAudio"])
    /\ console' = StopAllPlaybackLog(ok)
    /\ alert' = NoOutput /\ unhandled' = NoOutput
    /\ UNCHANGED <<platformOS, now, files, dirs, outsideEditor, editor>>

\* else branch and catch (err) of processAudio
ProcessAudioFailed(result) ==
  [console |-> NoOutput, alert |-> "Processing Failed: " \o result.error]
ProcessAudioCatch ==
  [console |-> "Failed to process audio",
   alert |-> "Error: Failed to process audio. Please try again."]

\* finally { setIsProcessing(false) }
ProcessAudioFinallyForgotten(e) == e
ProcessAudioFinally(e) == [e EXCEPT !.isProcessing = FALSE]

\* What a success result stores before the tracks are loaded (135-137).
ProcessAudioSucceeded(e, result) ==
  [e EXCEPT !.vocalTrack = result.vocalTrack,
            !.instrumentalTrack = result.instrumentalTrack,
            !.isProcessed = TRUE]

\* await processingAudio(audioUri) has settled.
ProcessingAudioSettled ==
  \E t \in InFlight :
    /\ t.op = "processAudio" /\ t.pc = "processingAudio"
    /\ call.fn = "processingAudio" /\ call.pc = "done"
    /\ call' = IdleCall
    /\ IF call.outcome = "rejected"
       THEN /\ editor' = ProcessAudioFinally(editor)
            /\ tasks' = Finish(t)
            /\ console' = ProcessAudioCatch.console
            /\ alert' = ProcessAudioCatch.alert
       ELSE IF call.result.success
       THEN /\ editor' = ProcessAudioSucceeded(editor, call.result)
            /\ tasks' = Become(t, [t EXCEPT !.pc = "loadVocal"])
            /\ console' = NoOutput
            /\ alert' = NoOutput
       ELSE /\ editor' = ProcessAudioFinally(editor)
            /\ tasks' = Finish(t)
            /\ console' = ProcessAudioFailed(call.result).console
            /\ alert' = ProcessAudioFailed(call.result).alert
    /\ unhandled' = NoOutput
    /\ UNCHANGED <<platformOS, now, files, dirs, outsideEditor>>

\* After await loadProcessedTracks(...): setPlaybackMode('processed'), then
\* the finally block. loadProcessedTracks catches its own failures.
ProcessAudioDoneNoSwitch(e) == ProcessAudioFinally(e)
ProcessAudioDone(e) == ProcessAudioFinally([e EXCEPT !.playbackMode = "processed"])

\* loadProcessedTracks (155-185): the vocal track; a failure is logged and
\* ends loadProcessedTracks.
ProcessLoadVocal ==
  \E t \in InFlight, ok \in BOOLEAN, volumeOk \in BOOLEAN :
    /\ t.op = "processAudio" /\ t.pc = "loadVocal"
    /\ IF ok /\ editor.vocalTrack \in DOMAIN files
       THEN /\ editor' = [editor EXCEPT !.vocalSound = TRUE]
            /\ tasks' = Become(t, [t EXCEPT !.pc = "loadInstrumental"])
            /\ console' = NoOutput
            /\ unhandled' = NoOutput
       ELSE /\ editor' = ProcessAudioDone(editor)
            /\ tasks' = Finish(t)
            /\ console' = "Failed to load processed tracks"
            /\ unhandled' = IF editor.playbackMode = "processed" THEN NoOutput
                            ELSE VolumeEffect(editor', volumeOk)
    /\ alert' = NoOutput
    /\ UNCHANGED <<utilVars, outsideEditor>>

\* loadProcessedTracks: the instrumental track.
ProcessLoadInstrumental ==
  \E t \in InFlight, ok \in BOOLEAN, volumeOk \in BOOLEAN :
    /\ t.op = "processAudio" /\ t.pc = "loadInstrumental"
    /\ editor' = ProcessAudioDone(
                   [editor EXCEPT !.instrumentalSound =
                      @ \/ (ok /\ editor.instrumentalTrack \in DOMAIN files)])
    /\ tasks' = Finish(t)
    /\ console' = IF ok /\ editor.instrumentalTrack \in DOMAIN files
                  THEN NoOutput ELSE "Failed to load processed tracks"
    /\ unhandled' = IF editor.playbackMode = "processed" THEN NoOutput
                    ELSE VolumeEffect(editor', volumeOk)
    /\ alert' = NoOutput
    /\ UNCHANGED <<utilVars, outsideEditor>>

\* ---------------------------------------------- switchPlaybackMode (266-272)
\* The mode button is rendered once isProcessed is true.
SwitchPlaybackMode ==
  /\ editor.mounted
  /\ editor.isProcessed
  /\ CanSpawn
  /\ editor' = [editor EXCEPT !.isPlaying = FALSE]
  /\ tasks' = Spawn([NoTask EXCEPT !.op = "switchPlaybackMode", !.pc = "stopAllPlayback"])
  /\ console' = NoOutput /\ alert' = NoOutput /\ unhandled' = NoOutput
  /\ UNCHANGED <<utilVars, outsideEditor>>

\* setPlaybackMode(prev => prev === 'original' ? 'processed' : 'original')
SwitchSettles ==
  \E t \in InFlight, ok \in BOOLEAN, volumeOk \in BOOLEAN :
    /\ t.op = "switchPlaybackMode" /\ t.pc = "stopAllPlayback"
    /\ editor' = [editor EXCEPT !.playbackMode =
                                  IF @ = "original" THEN "processed" ELSE "original"]
    /\ tasks' = Finish(t)
    /\ console' = StopAllPlaybackLog(ok)
    /\ alert' = NoOutput
    /\ unhandled' = VolumeEffect(editor', volumeOk)
    /\ UNCHANGED <<utilVars, outsideEditor>>

\* -------------------------------------------------- togglePlayback (187-231)
\* The play button is disabled while isProcessing; without the sounds of the
\* current mode the handler returns at once.
EditorTogglePlayback ==
  /\ editor.mounted
  /\ editor.audioUri # Undefined
  /\ ~editor.isProcessing
  /\ CanSpawn
  /\ IF editor.playbackMode = "original"
     THEN editor.originalSound
     ELSE editor.vocalSound /\ editor.instrumentalSound
  /\ tasks' = Spawn([NoTask EXCEPT !.op = "togglePlayback", !.pc = "toggle",
                                   !.playing = editor.isPlaying])
  /\ console' = NoOutput /\ alert' = NoOutput /\ unhandled' = NoOutput
  /\ UNCHANGED <<utilVars, outsideEditor, editor>>

\* pauseAsync / playAsync settle: setIsPlaying(!isPlaying) of the tap's
\* closure, or the catch block's console.error.
EditorToggleSettles ==
  \E t \in InFlight, ok \in BOOLEAN :
    /\ t.op = "togglePlayback" /\ t.pc = "toggle"
    /\ editor' = IF ok THEN [editor EXCEPT !.isPlaying = ~t.playing] ELSE editor
    /\ tasks' = Finish(t)
    /\ console' = IF ok THEN NoOutput ELSE "Failed to toggle playback"
    /\ alert' = NoOutput /\ unhandled' = NoOutput
    /\ UNCHANGED <<utilVars, outsideEditor>>

NextEditor ==
  \/ EditorOpen \/ EditorLoadCreateAsync \/ EditorLoadGetStatus
  \/ ProcessAudio \/ ProcessStopAllPlayback \/ Tick \/ ProcSteps
  \/ ProcessingAudioSettled \/ ProcessLoadVocal \/ ProcessLoadInstrumental
  \/ SwitchPlaybackMode \/ SwitchSettles
  \/ EditorTogglePlayback \/ EditorToggleSettles

\* ------------------------------------------------------ the mixer (347-387)
\* The sliders and the export button are rendered in processed mode, and are
\* out of reach while the Export screen lies over the Editor.
MixerShown ==
  /\ editor.mounted /\ editor.audioUri # Undefined
  /\ editor.isProcessed /\ editor.playbackMode = "processed"
  /\ ~export.mounted

\* The exploration moves one slider at a time through all its steps: a
\* slider takes any step while the other one rests at its minimum, its
\* initial value or its maximum, and one of these three otherwise.
RestSteps == {SliderMinimum, One.hundredths, SliderMaximum}
SliderReach(other) ==
  IF other.hundredths \in RestSteps /\ other.tail = 0 THEN SliderSteps ELSE RestSteps

\* onValueChange={setVocalVolume} with the slider's calculateValue, then the
\* volume effect.
SetVocalVolume ==
  \E n \in SliderReach(editor.instrumentalVolume), volumeOk \in BOOLEAN :
    /\ MixerShown
    /\ editor' = [editor EXCEPT !.vocalVolume = calculateValue(n)]
    /\ unhandled' = VolumeEffect(editor', volumeOk)
    /\ console' = NoOutput /\ alert' = NoOutput
    /\ UNCHANGED <<utilVars, outsideEditor, tasks>>

SetInstrumentalVolume ==
  \E n \in SliderReach(editor.vocalVolume), volumeOk \in BOOLEAN :
    /\ MixerShown
    /\ editor' = [editor EXCEPT !.instrumentalVolume = calculateValue(n)]
    /\ unhandled' = VolumeEffect(editor', volumeOk)
    /\ console' = NoOutput /\ alert' = NoOutput
    /\ UNCHANGED <<utilVars, outsideEditor, tasks>>

\* ============================================================ Export screen
InitExport ==
  [mounted |-> FALSE, from |-> "none",
   vocalTrack |-> Undefined, instrumentalTrack |-> Undefined,
   vocalVolume |-> AbsentParam, instrumentalVolume |-> AbsentParam,
   isMerging |-> FALSE, exportedUri |-> Null]

\* The screen as it mounts with its route parameters.
ExportOpened(from, vocalTrack, instrumentalTrack, vocalVolume, instrumentalVolume) ==
  [InitExport EXCEPT !.mounted = TRUE, !.from = from,
                     !.vocalTrack = vocalTrack, !.instrumentalTrack = instrumentalTrack,
                     !.vocalVolume = vocalVolume, !.instrumentalVolume = instrumentalVolume]

\* proceedToExport (274-286): router.push with the volumes as strings.
ProceedToExport ==
  /\ MixerShown
  /\ editor.vocalTrack # Null /\ editor.instrumentalTrack # Null
  /\ export' = ExportOpened("editor", editor.vocalTrack, editor.instrumentalTrack,
                            Param(NumberToString(editor.vocalVolume)),
                            Param(NumberToString(editor.instrumentalVolume)))
  /\ console' = NoOutput /\ alert' = NoOutput /\ unhandled' = NoOutput
  /\ UNCHANGED <<utilVars, recordScreen, editor, tasks>>

\* The route opened by a link: any parameter may be absent; a track that is
\* there is a file's URI and a volume that is there is the string '0'.
LinkTracks == {Undefined, CacheDirectory \o "recording.m4a"}
LinkVolumes == {AbsentParam, Param(<<"0">>)}

ExportOpenLink ==
  /\ ~export.mounted
  /\ tasks = EmptyBag
  /\ \E vt \in LinkTracks, it \in LinkTracks, vv \in LinkVolumes, iv \in LinkVolumes :
       export' = ExportOpened("link", vt, it, vv, iv)
  /\ console' = NoOutput /\ alert' = NoOutput /\ unhandled' = NoOutput
  /\ UNCHANGED <<utilVars, recordScreen, editor, tasks>>

\* router back: the Export screen is popped.
ExportBack ==
  /\ export.mounted
  /\ tasks = EmptyBag
  /\ export' = InitExport
  /\ console' = NoOutput /\ alert' = NoOutput /\ unhandled' = NoOutput
  /\ UNCHANGED <<utilVars, recordScreen, editor, tasks>>

\* const vocalVol = vocalVolume ? parseFloat(vocalVolume) : 1  (31-32)
VolumeFromParamOrOne(p) ==
  LET parsed == parseFloat(p.chars) IN
  IF Truthy(p) /\ parsed # Num(0, 0) THEN parsed ELSE One
VolumeFromParam(p) == IF Truthy(p) THEN parseFloat(p.chars) ELSE One
vocalVol == VolumeFromParam(export.vocalVolume)
instrumentalVol == VolumeFromParam(export.instrumentalVolume)

\* const hasRequiredParams = Boolean(vocalTrack && instrumentalTrack)  (28)
hasRequiredParams ==
  /\ export.vocalTrack \notin {Undefined, ""}
  /\ export.instrumentalTrack \notin {Undefined, ""}

\* --------------------------------------------------------- exportAudio (34-63)
\* The guard of exportAudio. The screen renders no export button without the
\* two tracks (117), so only a call from outside the rendered tree gets here.
ExportAudioMissingTracks ==
  /\ export.mounted
  /\ ~hasRequiredParams
  /\ alert' = "Error: Missing audio tracks. Please go back to the editor."
  /\ console' = NoOutput /\ unhandled' = NoOutput
  /\ UNCHANGED <<utilVars, recordScreen, editor, export, tasks>>

\* The tap on the export button, rendered while nothing is merging and
\* nothing is exported: setIsMerging(true) and the call of mergeAudioTracks.
ExportAudio ==
  /\ export.mounted
  /\ hasRequiredParams
  /\ ~export.isMerging /\ export.exportedUri = Null
  /\ CanSpawn
  /\ call.pc = "idle"
  /\ now < MaxTicks * TickMs
  /\ export' = [export EXCEPT !.isMerging = TRUE]
  /\ call' = MergeAudioTracksCalled(export.vocalTrack, export.instrumentalTrack,
                                    vocalVol, instrumentalVol)
  /\ tasks' = Spawn([NoTask EXCEPT !.op = "exportAudio", !.pc = "mergeAudioTracks"])
  /\ console' = NoOutput /\ alert' = NoOutput /\ unhandled' = NoOutput
  /\ UNCHANGED <<platformOS, now, files, dirs, recordScreen, editor>>

\* The three outcomes of exportAudio's try block.
ExportAudioSucceeded ==
  [console |-> NoOutput, alert |-> "Success: Your audio has been successfully exported!"]
ExportAudioFailed(result) ==
  [console |-> NoOutput, alert |-> "Export Failed: " \o result.error]
ExportAudioCatch ==
  [console |-> "Failed to export audio",
   alert |-> "Error: Failed to export audio. Please try again."]

\* finally { setIsMerging(false) }
ExportAudioFinallyOnSuccessOnly(x, success) == [x EXCEPT !.isMerging = ~success]
ExportAudioFinally(x, success) == [x EXCEPT !.isMerging = FALSE]

\* await mergeAudioTracks(...) has settled.
ExportMergeSettled ==
  \E t \in InFlight :
    /\ t.op = "exportAudio" /\ t.pc = "mergeAudioTracks"
    /\ call.fn = "mergeAudioTracks" /\ call.pc = "done"
    /\ call' = IdleCall
    /\ tasks' = Finish(t)
    /\ IF call.outcome = "rejected"
       THEN /\ export' = ExportAudioFinally(export, FALSE)
            /\ console' = ExportAudioCatch.console
            /\ alert' = ExportAudioCatch.alert
       ELSE IF call.result.success
       THEN /\ export' = ExportAudioFinally(
                           [export EXCEPT !.exportedUri = call.result.outputUri], TRUE)
            /\ console' = ExportAudioSucceeded.console
            /\ alert' = ExportAudioSucceeded.alert
       ELSE /\ export' = ExportAudioFinally(export, FALSE)
            /\ console' = ExportAudioFailed(call.result).console
            /\ alert' = ExportAudioFailed(call.result).alert
    /\ unhandled' = NoOutput
    /\ UNCHANGED <<platformOS, now, files, dirs, recordScreen, editor>>

\* ----------------------------------------------------------- shareAudio (65-91)
\* catch (err) of shareAudio
ShareAudioCatch ==
  [console |-> "Failed to share audio",
   alert |-> "Error: Failed to share audio. Please try again."]

\* The tap on share, rendered once exportedUri is set. On the web the link is
\* clicked at once; on a device Sharing.isAvailableAsync() is awaited.
ShareAudio ==
  /\ export.mounted
  /\ export.exportedUri # Null
  /\ CanSpawn
  /\ tasks' = IF platformOS = "web" THEN tasks
              ELSE Spawn([NoTask EXCEPT !.op = "shareAudio", !.pc = "isAvailableAsync",
                                        !.uri = export.exportedUri])
  /\ console' = NoOutput /\ alert' = NoOutput /\ unhandled' = NoOutput
  /\ UNCHANGED <<utilVars, recordScreen, editor, export>>

\* await Sharing.isAvailableAsync()
ShareIsAvailable ==
  \E t \in InFlight, outcome \in {"available", "unavailable", "rejected"} :
    /\ t.op = "shareAudio" /\ t.pc = "isAvailableAsync"
    /\ tasks' = IF outcome = "available" THEN Become(t, [t EXCEPT !.pc = "shareAsync"])
                ELSE Finish(t)
    /\ console' = IF outcome = "rejected" THEN ShareAudioCatch.console ELSE NoOutput
    /\ alert' = CASE outcome = "available" -> NoOutput
                  [] outcome = "unavailable" ->
                       "Sharing not available: Sharing is not available on this device"
                  [] outcome = "rejected" -> ShareAudioCatch.alert
    /\ unhandled' = NoOutput
    /\ UNCHANGED <<utilVars, recordScreen, editor, export>>

\* await Sharing.shareAsync(exportedUri)
ShareAsync ==
  \E t \in InFlight, ok \in BOOLEAN :
    /\ t.op = "shareAudio" /\ t.pc = "shareAsync"
    /\ tasks' = Finish(t)
    /\ console' = IF ok /\ t.uri \in DOMAIN files THEN NoOutput ELSE ShareAudioCatch.console
    /\ alert' = IF ok /\ t.uri \in DOMAIN files THEN NoOutput ELSE ShareAudioCatch.alert
    /\ unhandled' = NoOutput
    /\ UNCHANGED <<utilVars, recordScreen, editor, export>>

\* downloadAudio (93-109): a link click on the web, an alert on a device.
DownloadAudio ==
  /\ export.mounted
  /\ export.exportedUri # Null
  /\ alert' = IF platformOS = "web" THEN NoOutput
              ELSE "Success: File saved to your device. You can access it through the share option."
  /\ console' = NoOutput /\ unhandled' = NoOutput
  /\ UNCHANGED <<utilVars, recordScreen, editor, export, tasks>>

NextExport ==
  \/ ExportOpenLink \/ ExportAudioMissingTracks \/ ExportAudio
  \/ Tick \/ MergeSteps \/ ExportMergeSettled
  \/ ShareAudio \/ ShareIsAvailable \/ ShareAsync \/ DownloadAudio

\* ------------------------------------------- from the mixer to the Export screen
\* The Editor after a successful run of processAudio, with the mixer shown.
ProcessedEditor ==
  LET uri == CacheDirectory \o "recording.m4a"
      result == IF platformOS = "web"
                THEN WebProcessResult(uri).result
                ELSE ProcessingSuccess(TempDirName(ProcessSleepMs) \o "vocals.mp3",
                                       TempDirName(ProcessSleepMs) \o "instrumental.mp3")
      native == platformOS # "web"
  IN [ProcessAudioDone(ProcessAudioSucceeded(
        [InitEditor EXCEPT !.mounted = TRUE, !.audioUri = uri, !.originalSound = TRUE],
        result))
      EXCEPT !.vocalSound = native, !.instrumentalSound = native]

InitNav ==
  /\ InitRecord
  /\ platformOS \in Platforms
  /\ now = ProcessSleepMs
  /\ editor = ProcessedEditor
  /\ IF platformOS = "web"
     THEN files = InitialFiles /\ dirs = {CacheDirectory}
     ELSE /\ dirs = {CacheDirectory, TempDirName(ProcessSleepMs)}
          /\ files = CopyFile(CopyFile(InitialFiles, editor.audioUri, editor.vocalTrack),
                              editor.audioUri, editor.instrumentalTrack)
  /\ call = IdleCall
  /\ export = InitExport

NextNav ==
  \/ SetVocalVolume \/ SetInstrumentalVolume
  \/ ProceedToExport \/ ExportOpenLink \/ ExportBack

vars == <<utilVars, recVars, editor, export>>

Init == InitUtil /\ InitRecord /\ editor = InitEditor /\ export = InitExport

SpecUtil == Init /\ [][NextUtil]_vars

SpecRecord == Init /\ [][NextRecord]_vars

SpecEditor == Init /\ [][NextEditor]_vars

SpecNav == InitNav /\ [][NextNav]_vars

SpecExport == Init /\ [][NextExport]_vars

\* Timers fire, and the platform settles every promise a processAudio run
\* awaits.
SpecEditorFair ==
  /\ Init /\ [][NextEditor]_vars
  /\ WF_vars(Tick) /\ WF_vars(ProcSteps)
  /\ WF_vars(ProcessStopAllPlayback) /\ WF_vars(ProcessingAudioSettled)
  /\ WF_vars(ProcessLoadVocal) /\ WF_vars(ProcessLoadInstrumental)

\* ---------------------------------------------------------------- claims
ProcessingReturned == call.fn = "processingAudio" /\ call.pc = "done"
MergeReturned == call.fn = "mergeAudioTracks" /\ call.pc = "done"

\* C1: on every platform, when processingAudio(audioUri) returns success,
\* vocalTrack and instrumentalTrack are two paths that did not exist before,
\* distinct from each other and from audioUri, each resolving to a copy of
\* the input's content, and the input is still in place.
C1_ProcessedTracksAreCopies ==
  (ProcessingReturned /\ call.outcome = "fulfilled" /\ call.result.success) =>
    LET v == call.result.vocalTrack
        i == call.result.instrumentalTrack
        a == call.audioUri
    IN /\ v # i /\ v # a /\ i # a
       /\ v \notin call.before /\ i \notin call.before
       /\ a \in DOMAIN files /\ v \in DOMAIN files /\ i \in DOMAIN files
       /\ files[v] = files[a] /\ files[i] = files[a]

\* C2: when mergeAudioTracks returns success, outputUri is a path that did
\* not exist before and resolves to a copy of the vocal track's content
\* (whatever the volumes and the instrumental track are).
C2_MergedOutputIsCopyOfVocal ==
  (MergeReturned /\ call.outcome = "fulfilled" /\ call.result.success) =>
    LET o == call.result.outputUri
    IN /\ o \notin call.before
       /\ call.vocalUri \in DOMAIN files /\ o \in DOMAIN files
       /\ files[o] = files[call.vocalUri]

\* C3: processingAudio and mergeAudioTracks never reject: a failure of the
\* temp-directory creation or of a copy is returned as {success: false,
\* error: <non-empty message>}, and a {success: true} result carries its
\* paths defined.
C3_FailuresAreReturnedAsValues ==
  /\ call.outcome # "rejected"
  /\ call.pc = "done" =>
       /\ call.outcome = "fulfilled"
       /\ ~call.result.success =>
            call.result.error \notin {Undefined, ""}
       /\ (call.result.success /\ call.fn = "processingAudio") =>
            /\ call.result.vocalTrack # Undefined
            /\ call.result.instrumentalTrack # Undefined
       /\ (call.result.success /\ call.fn = "mergeAudioTracks") =>
            call.result.outputUri # Undefined

\* A native processingAudio whose temp-directory creation failed has returned.
C3_Witness ==
  /\ ProcessingReturned
  /\ platformOS # "web"
  /\ call.tempDir # Undefined
  /\ call.tempDir \notin dirs
  /\ ~call.result.success


\* ------------------------------------------------------------ Record screen
\* C4: every failure of a platform operation that a screen catches ends in an
\* alert dialog: whenever a catch block has logged an error in a step, that
\* step has also shown an alert.
C4_EveryCaughtFailureAlerts == console # NoOutput => alert # NoOutput

\* C5: no rejected platform promise escapes uncaught: no step of a handler,
\* effect or playback-status callback leaves a rejection without a handler.
C5_NoRejectionEscapes == unhandled = NoOutput

\* The step in which Audio.Recording.createAsync resolved, and the step in
\* which startRecording's catch block ran.
RecorderCreated == nextRecorder' = nextRecorder + 1
StartFailed == console' = "Failed to start recording"

\* C6: a tap on record while idle either creates the recorder, and then
\* recordingStatus is 'recording', the recording handle is the new recorder
\* (non-null), the position counter is back at 0 and the duration timer that
\* durationTimer refers to is running; or it fails, and then recordingStatus,
\* the recording handle and the timers are left as they were (an idle screen
\* stays idle, with no handle stored and no timer started) and the alert
\* 'Failed to start recording. Please try again.' is shown.
C6_StartRecordingTransitions ==
  [][ /\ RecorderCreated =>
           /\ recordingStatus' = "recording"
           /\ recording' = nextRecorder /\ recording' # NoId
           /\ positionRef' = 0 /\ position' = 0
           /\ durationTimer' \in timers' /\ durationTimer' \notin timers
           /\ alert' = NoOutput
      /\ StartFailed =>
           /\ recordingStatus' = recordingStatus
           /\ recording' = recording
           /\ timers' = timers /\ durationTimer' = durationTimer
           /\ alert' = "Error: Failed to start recording. Please try again."
    ]_vars

\* A second recording has started after the first one was stopped with its
\* position counter advanced: the counter is back at 0.
C6_Witness ==
  /\ recording = 2 /\ recordingStatus = "recording"
  /\ positionRef = 0 /\ position = 0
  /\ durationTimer \in timers
  /\ audioUri = Null
  /\ tasks = EmptyBag

\* ------------------------------------------------------------ Editor screen
\* The processAudio runs in flight.
ProcessRuns ==
  BagCardinality([t \in {u \in InFlight : u.op = "processAudio"} |-> tasks[t]])

\* C8: every run of processAudio sets isProcessing and eventually clears it,
\* whatever the outcome; isProcessing is true exactly while one run is in
\* flight, and no run starts while it is true.
C8_ProcessingAlwaysEnds ==
  /\ [](ProcessRuns <= 1 /\ (editor.isProcessing <=> ProcessRuns = 1))
  /\ [][ProcessRuns' > ProcessRuns => ~editor.isProcessing /\ editor'.isProcessing]_vars
  /\ (editor.isProcessing ~> ~editor.isProcessing)

\* A run has ended with a failure result and the process button is back.
C8_Witness ==
  /\ editor.mounted /\ ~editor.isProcessing /\ ProcessButtonShown
  /\ ProcessRuns = 0
  /\ alert = "Processing Failed: Failed to process audio on device."

\* The step in which processAudio reads the settled processingAudio promise.
ResultRead == call.fn = "processingAudio" /\ call.pc = "done" /\ call'.pc = "idle"
ResultIsSuccess == call.outcome = "fulfilled" /\ call.result.success

\* C9: a success result stores its two paths and sets isProcessed, and once
\* the tracks are loaded the run ends in playbackMode 'processed'; a failure
\* result or a rejection leaves isProcessed, the two tracks and playbackMode
\* as they were and shows an alert.
C9_ProcessAudioOutcome ==
  [][ /\ (ResultRead /\ ResultIsSuccess) =>
           /\ editor'.vocalTrack = call.result.vocalTrack
           /\ editor'.instrumentalTrack = call.result.instrumentalTrack
           /\ editor'.isProcessed
           /\ alert' = NoOutput
      /\ (ResultRead /\ ~ResultIsSuccess) =>
           /\ editor'.isProcessed = editor.isProcessed
           /\ editor'.vocalTrack = editor.vocalTrack
           /\ editor'.instrumentalTrack = editor.instrumentalTrack
           /\ editor'.playbackMode = editor.playbackMode
           /\ alert' \in {"Processing Failed: " \o call.result.error,
                          "Error: Failed to process audio. Please try again."}
      /\ (~ResultRead /\ editor.isProcessing /\ ~editor'.isProcessing) =>
           /\ editor'.playbackMode = "processed"
           /\ editor'.isProcessed
           /\ editor'.vocalTrack = editor.vocalTrack /\ editor.vocalTrack # Null
           /\ editor'.instrumentalTrack = editor.instrumentalTrack
           /\ editor.instrumentalTrack # Null
    ]_vars

\* A run has succeeded: both tracks are files, loaded, and the mixer is shown.
C9_Witness ==
  /\ editor.isProcessed /\ editor.playbackMode = "processed" /\ ~editor.isProcessing
  /\ editor.vocalTrack \in DOMAIN files /\ editor.instrumentalTrack \in DOMAIN files
  /\ editor.vocalSound /\ editor.instrumentalSound
  /\ ProcessRuns = 0

\* ---------------------------------------------------- navigation parameters
\* The volume a route parameter stands for: the Editor's value when the
\* Editor pushed the route, 0 for a link's '0'.
SentVolume(editorVolume) ==
  IF export.from = "editor" THEN editorVolume ELSE Num(0, 0)

\* C7: on the Export screen vocalVol and instrumentalVol are the volumes the
\* Editor's mixer held when it pushed the route, for every slider step from 0
\* to 2 and for exactly 0 as well; the default 1 stands in only for a
\* parameter that is absent.
C7_VolumesSurviveNavigation ==
  export.mounted =>
    /\ vocalVol = IF export.vocalVolume.defined
                  THEN SentVolume(editor.vocalVolume) ELSE One
    /\ instrumentalVol = IF export.instrumentalVolume.defined
                         THEN SentVolume(editor.instrumentalVolume)
                         ELSE One
    /\ (export.from = "editor" =>
          export.vocalVolume.defined /\ export.instrumentalVolume.defined)

\* The Editor has pushed the route with the vocals muted and an instrumental
\* volume whose double is not the one nearest to its hundredths.
C7_Witness ==
  /\ export.mounted /\ export.from = "editor"
  /\ editor.vocalVolume = Num(0, 0)
  /\ editor.instrumentalVolume.tail # 0
  /\ export.vocalVolume.chars = <<"0">>
  /\ Len(export.instrumentalVolume.chars) > 4

\* ------------------------------------------------------------ Export screen
\* The step in which exportAudio reads the settled mergeAudioTracks promise.
MergeRead == call.fn = "mergeAudioTracks" /\ call.pc = "done" /\ call'.pc = "idle"
MergeCalled == call.fn # "mergeAudioTracks" /\ call'.fn = "mergeAudioTracks"

\* C10: without both tracks exportAudio shows its alert, calls no merge and
\* leaves isMerging false; with them, isMerging is true exactly while the
\* merge is in flight and is false again after every outcome, and exportedUri
\* changes only to the outputUri of a success result.
C10_ExportAudioFlags ==
  /\ [](export.isMerging <=> call.fn = "mergeAudioTracks")
  /\ [](export.mounted /\ ~hasRequiredParams => ~export.isMerging)
  /\ [][ /\ MergeCalled =>
              /\ hasRequiredParams /\ ~export.isMerging /\ export'.isMerging
              /\ call'.vocalUri = export.vocalTrack
              /\ call'.instrumentalUri = export.instrumentalTrack
              /\ call'.vocalVolume = vocalVol
              /\ call'.instrumentalVolume = instrumentalVol
         /\ (export.mounted /\ ~hasRequiredParams /\ alert' # NoOutput) =>
              /\ alert' = "Error: Missing audio tracks. Please go back to the editor."
              /\ call' = call /\ export' = export
         /\ MergeRead =>
              /\ ~export'.isMerging
              /\ alert' # NoOutput
              /\ export'.exportedUri =
                   IF call.outcome = "fulfilled" /\ call.result.success
                   THEN call.result.outputUri ELSE export.exportedUri
         /\ (export.mounted /\ export'.exportedUri # export.exportedUri) =>
              MergeRead /\ call.outcome = "fulfilled" /\ call.result.success
       ]_vars

\* A merge has failed on the device: nothing is exported, nothing is merging
\* and the failure is shown.
C10_Witness ==
  /\ export.mounted /\ hasRequiredParams
  /\ ~export.isMerging /\ export.exportedUri = Null
  /\ call.pc = "idle"
  /\ alert = "Export Failed: Failed to merge audio tracks on device."

\* ------------------------------------------------ Record screen: recorder
\* The step in which the platform call of a handler in flight settles and the
\* handler ends, and the step in which a handler starts.
Settles(op, pc) == \E t \in InFlight : t.op = op /\ t.pc = pc /\ tasks' = Finish(t)
Starts(op) == \E t \in DOMAIN tasks' : t.op = op /\ tasks' = Spawn(t)

\* C11: a pause tap taken in 'recording' ends, when pauseAsync resolves, in
\* 'paused' with the timer of durationTimer cleared; one taken in 'paused'
\* ends, when startAsync resolves, in 'recording' with a new timer running
\* and the position counter where it was; a tap without a recording handle
\* starts nothing; a rejected platform call leaves recordingStatus alone.
C11_PauseRecordingToggles ==
  [][ /\ (Settles("pauseRecording", "pauseAsync") /\ console' = NoOutput) =>
           /\ recordingStatus' = "paused"
           /\ durationTimer \notin timers'
           /\ timers' \subseteq timers
           /\ positionRef' = positionRef
      /\ (Settles("pauseRecording", "startAsync") /\ console' = NoOutput) =>
           /\ recordingStatus' = "recording"
           /\ durationTimer' \in timers' /\ durationTimer' \notin timers
           /\ positionRef' = positionRef /\ position' = position
      /\ ((Settles("pauseRecording", "pauseAsync") \/ Settles("pauseRecording", "startAsync"))
            /\ console' # NoOutput) =>
           /\ recordingStatus' = recordingStatus
           /\ timers' = timers /\ durationTimer' = durationTimer
      /\ Starts("pauseRecording") =>
           /\ recording # NoId
           /\ \E t \in DOMAIN tasks' :
                /\ tasks' = Spawn(t) /\ t.rec = recording
                /\ t.pc = IF recordingStatus = "recording" THEN "pauseAsync" ELSE "startAsync"
      /\ (recording = NoId /\ tasks' = tasks) =>
           UNCHANGED <<recording, recordingStatus, durationTimer>> /\ timers' \subseteq timers
    ]_vars

\* A recording was paused with its counter advanced and has been resumed:
\* the second timer runs and the counter is where it was.
C11_Witness ==
  /\ recording = 1 /\ recordingStatus = "recording"
  /\ positionRef = MaxPosition /\ position = MaxPosition
  /\ durationTimer = 2 /\ timers = {2}
  /\ tasks = EmptyBag

\* The step in which stopRecording reaches setRecording(null) with a URI from
\* the recorder: the handler hands over to the un-awaited loadAudio(uri).
StopSucceeds(t) ==
  /\ t.op = "stopRecording"
  /\ tasks' = Become(t, LoadAudioTask(t, RecordingUri(t.rec)))

\* The copy of the recording under the fixed cache name.
RecordingCached(rec) ==
  /\ CacheDestination("recording.m4a") \in DOMAIN files
  /\ RecordingUri(rec) \in DOMAIN files
  /\ files[CacheDestination("recording.m4a")] = files[RecordingUri(rec)]

\* C12: when a stopRecording succeeds, recordingStatus is 'idle', the
\* recording handle is null, the timer of durationTimer is not running,
\* audioUri is the recorder's own URI and the cache holds a copy of the
\* recording under 'recording.m4a'; a stop handler starts only with a
\* recording handle.
C12_StopRecordingResult ==
  [][ /\ \A t \in InFlight :
           StopSucceeds(t) =>
             /\ recordingStatus' = "idle"
             /\ recording' = NoId
             /\ durationTimer' \notin timers'
             /\ audioUri' = RecordingUri(t.rec)
             /\ RecordingCached(t.rec)'
      /\ Starts("stopRecording") => recording # NoId
    ]_vars

\* No handler of the mounted Record screen is awaiting a platform call.
Quiescent == mounted /\ tasks = EmptyBag

\* C13: whenever no handler is awaiting a platform call, recordingStatus is
\* 'idle' exactly when the recording handle is null.
C13_IdleIffNoHandle ==
  Quiescent => (recordingStatus = "idle" <=> recording = NoId)

\* C14: whenever no handler is awaiting a platform call, at most one interval
\* timer is running, and one is running only in recordingStatus 'recording'.
C14_OneTimerWhileRecording ==
  Quiescent =>
    /\ Cardinality(timers) <= 1
    /\ timers # {} => recordingStatus = "recording"

\* ------------------------------------------------ Record screen: playback
\* The status update of a sound that has played to its end: it was playing,
\* it is loaded and no longer playing, and no handler took a step.
DidJustFinish(id) ==
  /\ sounds[id].loaded /\ sounds[id].playing
  /\ sounds'[id].loaded /\ ~sounds'[id].playing
  /\ tasks' = tasks

\* C15: when the sound held in the sound state plays to its end, isPlaying
\* becomes false, the displayed position becomes 0 and the playback position
\* of that sound is 0 again.
C15_FinishedSoundRewinds ==
  [][ \A id \in SoundIds :
        (sound = id /\ DidJustFinish(id)) =>
          /\ isPlaying' = FALSE
          /\ position' = 0
          /\ sounds'[id].pos = 0
    ]_vars

\* C16: once the Record screen is unmounted, the timer of durationTimer is
\* not running, and every sound is unloaded or is being stopped or unloaded
\* by a handler.
C16_UnmountReleases ==
  ~mounted =>
    /\ durationTimer \notin timers
    /\ \A id \in SoundIds :
         sounds[id].loaded =>
           \E t \in InFlight : t.snd = id /\ t.pc \in {"stopAsync", "unloadAsync"}

====
